---- MODULE Spec2Model ----
(***************************************************************************)
(* SASL authentication handshake of the VNC server (vnc/src/auth.rs).      *)
(*                                                                         *)
(* One connection is modelled.  The outer I/O loop delivers `expect` bytes *)
(* and invokes the registered handler; every handler of auth.rs is one     *)
(* action.  The SASL library is an external collaborator: each of its      *)
(* return codes and outputs is a nondeterministic choice.                  *)
(*                                                                         *)
(* Byte strings read from the client are plain sequences of bytes.  A      *)
(* Vec<u8> that is written to the client is kept run-length encoded (a     *)
(* sequence of <<byte, count>> runs, adjacent runs differing in byte), so  *)
(* that a challenge of SASL_DATA_MAX_LEN bytes can be represented.         *)
(* 32-bit headers are limited to values below 2^31.                        *)
(*                                                                         *)
(* The E820 table of the x86_64 boot loader (boot_loader/src/x86_64/        *)
(* bootparam.rs) is modelled next to it, with its own specification         *)
(* BootSpec.  Guest addresses and sizes are counted in units of 0x400       *)
(* bytes, which divides every constant of the memory layout; the inputs     *)
(* are multiples of it too, and the code only adds, subtracts and compares  *)
(* them.                                                                    *)
(***************************************************************************)
EXTENDS Integers, Sequences, FiniteSets, TLC

\* ---------------------------------------------------------------- constants
MECHNAME_MAX_LEN == 100
MECHNAME_MIN_LEN == 1
SASL_DATA_MAX_LEN == 1024 * 1024
MIN_SSF_LENGTH == 56

SASL_OK == 0
SASL_CONTINUE == 1
SASL_FAIL == -1

\* The unit of guest addresses and sizes, in bytes.
Granule == 1024

\* boot_loader/src/x86_64/mod.rs
REAL_MODE_IVT_BEGIN == 0 \div Granule           \* 0x0000_0000
EBDA_START == 654336 \div Granule               \* 0x0009_fc00
VGA_RAM_BEGIN == 655360 \div Granule            \* 0x000a_0000
MB_BIOS_BEGIN == 983040 \div Granule            \* 0x000f_0000
VMLINUX_RAM_START == 1048576 \div Granule       \* 0x0010_0000

\* boot_loader/src/x86_64/bootparam.rs
E820_RAM == 1
E820_RESERVED == 2
E820_TABLE_LEN == 128                           \* [E820Entry; 0x80]

\* Bound on the number of Continue rounds the provider asks for.
MaxRounds == 2

\* ------------------------------------------------------------- byte strings
\* u32::to_be_bytes
to_be_bytes(n) ==
    << (n \div 16777216) % 256, (n \div 65536) % 256, (n \div 256) % 256, n % 256 >>

\* u32::from_be_bytes([buf[0], buf[1], buf[2], buf[3]])
from_be_bytes(b) ==
    b[1] * 16777216 + b[2] * 65536 + b[3] * 256 + b[4]

\* n copies of byte b, as a run-length encoded Vec<u8>
Run(b, n) == IF n = 0 THEN << >> ELSE << <<b, n>> >>

\* Vec::append on run-length encoded byte strings
BCat(s, t) ==
    IF s = << >> THEN t
    ELSE IF t = << >> THEN s
    ELSE IF s[Len(s)][1] = t[1][1]
         THEN SubSeq(s, 1, Len(s) - 1)
                \o << <<t[1][1], s[Len(s)][2] + t[1][2]>> >> \o Tail(t)
         ELSE s \o t

RECURSIVE BLen(_)
BLen(s) == IF s = << >> THEN 0 ELSE s[1][2] + BLen(Tail(s))

RECURSIVE BAt(_, _)
BAt(s, i) == IF i <= s[1][2] THEN s[1][1] ELSE BAt(Tail(s), i - s[1][2])

\* the bytes s[i..j] of a run-length encoded string, as a plain sequence
BSub(s, i, j) == [k \in 1..(j - i + 1) |-> BAt(s, i + k - 1)]

\* a plain byte sequence as a Vec<u8>  (to_vec / as_bytes): one run per
\* maximal block of equal bytes
to_vec(q) ==
    LET starts == { i \in 1..Len(q) : i = 1 \/ q[i] # q[i - 1] }
        start(k) == CHOOSE i \in starts :
                        Cardinality({ j \in starts : j < i }) = k - 1
        n == Cardinality(starts)
    IN  [ k \in 1..n |->
            << q[start(k)],
               (IF k = n THEN Len(q) + 1 ELSE start(k + 1)) - start(k) >> ]

\* CStr::from_ptr: the bytes before the first NUL
RECURSIVE CStr_from_ptr(_)
CStr_from_ptr(s) ==
    IF s = << >> \/ s[1][1] = 0 THEN << >>
    ELSE << s[1] >> \o CStr_from_ptr(Tail(s))

\* String::from_utf8_lossy on the bytes the client can send here: ASCII bytes
\* are kept, the byte 0xFF (never valid in UTF-8) becomes U+FFFD (EF BF BD).
from_utf8_lossy(q) ==
    LET bad(i) == Cardinality({ j \in 1..i : q[j] >= 128 })
        \* the offset of the encoding of q[i] in the result
        off(i) == (i - 1) + 2 * bad(i - 1)
        total == Len(q) + 2 * bad(Len(q))
        src(k) == CHOOSE i \in 1..Len(q) :
                      off(i) < k /\ k <= off(i) + (IF q[i] < 128 THEN 1 ELSE 3)
    IN  [ k \in 1..total |->
            IF q[src(k)] < 128 THEN q[src(k)]
            ELSE << 239, 191, 189 >>[k - off(src(k))] ]

\* str::split(',') : the comma-separated elements (at least one, maybe empty)
RECURSIVE split(_)
split(q) ==
    IF \A i \in 1..Len(q) : q[i] # 44 THEN << q >>
    ELSE LET i == CHOOSE k \in 1..Len(q) :
                     q[k] = 44 /\ \A j \in 1..(k - 1) : q[j] # 44
         IN << SubSeq(q, 1, i - 1) >> \o split(SubSeq(q, i + 1, Len(q)))

\* ------------------------------------------------------------------- inputs
PLAIN == << 80, 76, 65, 73, 78 >>
ANONYMOUS == << 65, 78, 79, 78, 89, 77, 79, 85, 83 >>
EXTERNAL == << 69, 88, 84, 69, 82, 78, 65, 76 >>
Comma == << 44 >>
LongMech == [i \in 1..MECHNAME_MAX_LEN |-> 88]

\* mechanism lists sasl_listmech can return
MechLists == { PLAIN \o Comma \o ANONYMOUS, LongMech, << >> }

\* mechanism names a client can send
MechNames ==
    { PLAIN, ANONYMOUS, EXTERNAL, LongMech,
      << 112, 108, 97, 105, 110 >>,          \* "plain"
      << 80, 76, 65 >>,                      \* "PLA"
      << 80 >>,                              \* "P"
      << 255 >>,                             \* not UTF-8
      PLAIN \o Comma \o ANONYMOUS }

\* 4-byte headers a client can send
HeaderValues ==
    { 0, 1, 2, 3, 5, 8, 9, 15, 99, 100, 101, 256, 65536,
      SASL_DATA_MAX_LEN - 1, SASL_DATA_MAX_LEN, SASL_DATA_MAX_LEN + 1,
      16777216, 2147483647 }
Headers == { to_be_bytes(n) : n \in HeaderValues }

\* authentication messages a client can send
Payloads == { << 65 >>, << 65, 66 >>, << 7, 8, 9 >> }

\* (serverout, serverout_len) pairs the provider can return
ServerOuts ==
    { [len |-> 0, data |-> << >>],
      [len |-> 2, data |-> BCat(Run(65, 1), Run(66, 1))],
      [len |-> 3, data |-> BCat(Run(65, 1), BCat(Run(0, 1), Run(66, 1)))],
      [len |-> SASL_DATA_MAX_LEN, data |-> Run(65, SASL_DATA_MAX_LEN)],
      [len |-> SASL_DATA_MAX_LEN + 1, data |-> Run(65, SASL_DATA_MAX_LEN + 1)] }

\* what sasl_getprop(SASL_SSF) can yield: an error, or a pointer to the
\* strength factor.  The factor is the value the code reads through the
\* pointer (at usize width).
SsfProps ==
    { [err |-> SASL_FAIL, val |-> 0] }
      \cup { [err |-> SASL_OK, val |-> v] : v \in { 0, 55, 56, 57, 256 } }
\* what sasl_getprop(SASL_USERNAME) can yield: an error, a null pointer, a name
UserProps ==
    { [err |-> SASL_FAIL, null |-> TRUE, name |-> ""],
      [err |-> SASL_OK, null |-> TRUE, name |-> ""] }
      \cup { [err |-> SASL_OK, null |-> FALSE, name |-> n] :
                n \in { "admin", "Admin", "" } }
\* configured identities
Identities == { "admin", "" }

\* ------------------------------------------------------------------- state
VARIABLES
    phase,        \* "new" | "auth" | "accepted" | "failed"
    expect,       \* VncClient.expect
    handler,      \* VncClient.msg_handler
    sasl,         \* VncClient.sasl : Sasl
    wire,         \* the buffers passed to write_msg, in order
    prov,         \* what sasl_getprop yields on the session: [ssf, user]
    calls,        \* the provider exchange operations called, oldest first
    disposed,     \* number of sasl_dispose calls on a live session
    libInit,      \* number of sasl_server_init calls
    rounds,       \* number of Continue outcomes so far
    last,         \* what the last handler invocation did
    tick,         \* flips at every invocation the caller or the loop makes
    boot_params,  \* BootParams: e820_entries, e820_table
    config,       \* X86BootLoaderConfig: gap_range
    sys_mem,      \* sys_mem.memory_end_address().raw_value()
    add_calls     \* number of add_e820_entry calls made

bootvars == << boot_params, config, sys_mem, add_calls >>

vars == << phase, expect, handler, sasl, wire, prov, calls, disposed,
           libInit, rounds, last, tick, bootvars >>

\* last.handler  : the handler the loop invoked
\* last.result   : "Ok", or the message of the error returned
\* last.hdr      : the length a length handler decoded (-1: none)
\* last.input    : the bytes read_front returned to the handler
\* last.written  : the buffers the invocation passed to write_msg
\* last.regs     : the number of update_event_handler calls it made
\* last.call     : the sasl_server_start / sasl_server_step call it made
\*                 (operation, mechanism, client data, client_len), if any
\* last.err, last.outlen, last.serverout, last.reply: that call's return
\*                 code, serverout_len, the bytes at serverout, and the
\*                 reply buffer built from them
\* last.checked_ssf, last.checked_authz: whether sasl_check_ssf /
\*                 sasl_check_authz were called
\* last.trace    : the provider operations, write_msg and
\*                 update_event_handler calls of the invocation, in order
NoLast ==
    [ handler |-> "none", result |-> "none", hdr |-> -1, input |-> << >>,
      written |-> << >>, regs |-> 0, call |-> << >>, err |-> SASL_FAIL,
      outlen |-> 0, serverout |-> << >>, reply |-> << >>,
      checked_ssf |-> FALSE, checked_authz |-> FALSE, trace |-> << >> ]

\* Sasl::default(), with the connection's configuration
Sasl_default(identity, want_ssf) ==
    [ sasl_conn |-> "null",
      identity |-> identity,
      mech_list |-> << >>,
      mech_name |-> << >>,
      sasl_stage |-> "SaslServerStart",
      want_ssf |-> want_ssf,
      run_ssf |-> 0 ]

\* E820Entry::new
E820Entry_new(addr, size, type_) ==
    [ addr |-> addr, size |-> size, type_ |-> type_ ]

\* BootParams::new: the table is zeroed
BootParams_new ==
    [ e820_entries |-> 0,
      e820_table |-> [ i \in 0..(E820_TABLE_LEN - 1) |-> E820Entry_new(0, 0, 0) ] ]

\* (gap start, gap size) of the machine's memory layout
GapRanges ==
    { << 3 * 1048576, 1048576 >>,        \* (0xC000_0000, 0x4000_0000)
      << 2 * 1048576, 1048576 >>,
      << 3 * 1048576, 0 >>,
      << 4 * 1048576, 0 >>,
      << VMLINUX_RAM_START, 1024 >> }

\* memory end addresses: guest RAM reaches at least the kernel load address
MemEnds ==
    { VMLINUX_RAM_START, VMLINUX_RAM_START + 1, 2048,
      262144,                             \* 0x1000_0000
      2 * 1048576, 3 * 1048576 - 1, 3 * 1048576, 3 * 1048576 + 1,
      4 * 1048576 - 1, 4 * 1048576, 4 * 1048576 + 1, 8 * 1048576 }

\* The boot loader has not been given anything to do.
BootIdle ==
    /\ boot_params = BootParams_new
    /\ config = [gap_range |-> << 3 * 1048576, 1048576 >>]
    /\ sys_mem = VMLINUX_RAM_START
    /\ add_calls = 0

Init ==
    /\ BootIdle
    /\ phase = "new"
    /\ expect = 0
    /\ handler = "none"
    /\ \E id \in Identities, w \in BOOLEAN : sasl = Sasl_default(id, w)
    /\ wire = << >>
    /\ prov = [ssf |-> [err |-> SASL_FAIL, val |-> 0],
               user |-> [err |-> SASL_FAIL, null |-> TRUE, name |-> ""]]
    /\ calls = << >>
    /\ disposed = 0
    /\ libInit = 0
    /\ rounds = 0
    /\ last = NoLast
    /\ tick = 0

\* ------------------------------------------------- effects of an invocation
\* What one handler invocation does: the Result it returns, the Sasl it
\* leaves, the buffers it writes, the (expect, handler) pairs it registers,
\* and the provider calls it makes.
Effect(s) ==
    [ result |-> "Ok", sasl |-> s, written |-> << >>, reg |-> << >>,
      disposes |-> 0, call |-> << >>, err |-> SASL_FAIL, outlen |-> 0,
      serverout |-> << >>, reply |-> << >>, checked_ssf |-> FALSE,
      checked_authz |-> FALSE, trace |-> << >> ]

\* Err(anyhow!(VncError::AuthFailed(msg)))
AuthFailed(e, msg) == [e EXCEPT !.result = msg]

\* self.update_event_handler(n, h)
update_event_handler(e, n, h) ==
    [e EXCEPT !.reg = Append(@, [expect |-> n, handler |-> h]),
              !.trace = Append(@, "update_event_handler")]

\* self.write_msg(&buf)
write_msg(e, buf) ==
    [e EXCEPT !.written = Append(@, buf), !.trace = Append(@, "write_msg")]

sasl_dispose_forgotten(e) == e

sasl_dispose_twice(e) ==
    [e EXCEPT !.sasl.sasl_conn = "null",
              !.disposes = @ + (IF e.sasl.sasl_conn = "live" THEN 1 ELSE 0),
              !.trace = @ \o << "sasl_dispose", "sasl_dispose" >>]

\* unsafe { sasl_dispose(&mut self.sasl.sasl_conn) }
sasl_dispose(e) ==
    [e EXCEPT !.sasl.sasl_conn = "null",
              !.disposes = @ + (IF e.sasl.sasl_conn = "live" THEN 1 ELSE 0),
              !.trace = Append(@, "sasl_dispose")]

\* ------------------------------------------------------- get_mechname_length
mechname_too_long_ge(len) == len >= MECHNAME_MAX_LEN

mechname_too_long(len) == len > MECHNAME_MAX_LEN

mechname_too_short(len) == len < MECHNAME_MIN_LEN

get_mechname_length_effect_reg(s, buf) ==
    LET len == from_be_bytes(buf)
        e == update_event_handler(Effect(s), len, "get_sasl_mechname")
    IN  IF mechname_too_long(len)
        THEN AuthFailed(e, "SASL mechname too long")
        ELSE IF mechname_too_short(len)
        THEN AuthFailed(e, "SASL mechname too short")
        ELSE e

get_mechname_length_effect(s, buf) ==
    LET len == from_be_bytes(buf)
    IN  IF mechname_too_long(len)
        THEN AuthFailed(Effect(s), "SASL mechname too long")
        ELSE IF mechname_too_short(len)
        THEN AuthFailed(Effect(s), "SASL mechname too short")
        ELSE update_event_handler(Effect(s), len, "get_sasl_mechname")

\* --------------------------------------------------------- get_sasl_mechname
mech_matches_prefix(mech_name, mech) ==
    Len(mech_name) <= Len(mech) /\ SubSeq(mech, 1, Len(mech_name)) = mech_name

\* for mech in mech_list { if mech_name == *mech { ... } }
mech_matches(mech_name, mech) == mech_name = mech

select_mech_unchecked(s, mech_name) ==
    [s EXCEPT !.mech_name = mech_name]

select_mech_trim(s, mech_name) ==
    LET mech_list == split(s.mech_list)
    IN  IF \E i \in 1..Len(mech_list) : mech_matches(mech_name, mech_list[i])
        THEN [s EXCEPT !.mech_name = mech_name, !.mech_list = mech_name]
        ELSE s

select_mech(s, mech_name) ==
    LET mech_list == split(s.mech_list)
    IN  IF \E i \in 1..Len(mech_list) : mech_matches(mech_name, mech_list[i])
        THEN [s EXCEPT !.mech_name = mech_name]
        ELSE s

get_sasl_mechname_effect_skip(s, buf) ==
    LET mech_name == from_utf8_lossy(buf)
        s1 == select_mech(s, mech_name)
    IN  IF s1.mech_name = << >>
        THEN AuthFailed(Effect(s1), "Unsupported mechanism")
        ELSE update_event_handler(Effect(s1), 4, "client_sasl_auth")

get_sasl_mechname_effect(s, buf) ==
    LET mech_name == from_utf8_lossy(buf)
        s1 == select_mech(s, mech_name)
    IN  IF s1.mech_name = << >>
        THEN AuthFailed(Effect(s1), "Unsupported mechanism")
        ELSE update_event_handler(Effect(s1), 4, "get_authmessage_length")

\* ---------------------------------------------------------- finalize checks
sasl_check_ssf_le(s, p) ==
    IF ~s.want_ssf THEN [ok |-> TRUE, msg |-> "", sasl |-> s]
    ELSE IF p.ssf.err # SASL_OK
    THEN [ok |-> FALSE, msg |-> "sasl_getprop: internal error", sasl |-> s]
    ELSE IF p.ssf.val <= MIN_SSF_LENGTH
    THEN [ok |-> FALSE, msg |-> "SASL SSF too weak", sasl |-> s]
    ELSE [ok |-> TRUE, msg |-> "", sasl |-> [s EXCEPT !.run_ssf = 1]]

sasl_check_ssf_early(s, p) ==
    LET s1 == [s EXCEPT !.run_ssf = 1]
    IN  IF ~s.want_ssf THEN [ok |-> TRUE, msg |-> "", sasl |-> s]
        ELSE IF p.ssf.err # SASL_OK
        THEN [ok |-> FALSE, msg |-> "sasl_getprop: internal error", sasl |-> s]
        ELSE IF p.ssf.val < MIN_SSF_LENGTH
        THEN [ok |-> FALSE, msg |-> "SASL SSF too weak", sasl |-> s1]
        ELSE [ok |-> TRUE, msg |-> "", sasl |-> s1]

\* sasl_check_ssf: whether the check passed, the error message, the Sasl
sasl_check_ssf(s, p) ==
    IF ~s.want_ssf THEN [ok |-> TRUE, msg |-> "", sasl |-> s]
    ELSE IF p.ssf.err # SASL_OK
    THEN [ok |-> FALSE, msg |-> "sasl_getprop: internal error", sasl |-> s]
    ELSE IF p.ssf.val < MIN_SSF_LENGTH
    THEN [ok |-> FALSE, msg |-> "SASL SSF too weak", sasl |-> s]
    ELSE [ok |-> TRUE, msg |-> "", sasl |-> [s EXCEPT !.run_ssf = 1]]

\* sasl_check_authz
sasl_check_authz(s, p) ==
    IF p.user.err # SASL_OK
    THEN [ok |-> FALSE, msg |-> "Cannot fetch SASL username"]
    ELSE IF p.user.null
    THEN [ok |-> FALSE, msg |-> "No SASL username set"]
    ELSE IF s.identity # p.user.name
    THEN [ok |-> FALSE, msg |-> "No SASL username set"]
    ELSE [ok |-> TRUE, msg |-> ""]

\* let reason = String::from("Authentication failed");
reason == << 65, 117, 116, 104, 101, 110, 116, 105, 99, 97, 116, 105, 111,
             110, 32, 102, 97, 105, 108, 101, 100 >>

\* auth_reject(buf)
reject_value == to_vec(to_be_bytes(1))
reason_len == to_vec(to_be_bytes(Len(reason)))
reason_bytes == to_vec(reason)

auth_reject_nolen(buf) ==
    BCat(BCat(buf, reject_value), reason_bytes)

auth_reject(buf) ==
    BCat(BCat(BCat(buf, reject_value), reason_len), reason_bytes)

\* ---------------------------------------------------------- client_sasl_auth
serverout_too_long_ge(serverout_len) == serverout_len >= SASL_DATA_MAX_LEN

serverout_too_long(serverout_len) == serverout_len > SASL_DATA_MAX_LEN

\* the challenge reply: lines 247-262
challenge_reply(err, so) ==
    LET head == IF so.len > 0
                THEN BCat(to_vec(to_be_bytes(so.len + 1)), CStr_from_ptr(so.data))
                ELSE to_vec(to_be_bytes(0))
    IN  IF err = SASL_OK THEN BCat(head, Run(1, 1))
        ELSE IF err = SASL_CONTINUE THEN BCat(head, Run(0, 1))
        ELSE head

auth_continue_keep_stage(e) ==
    update_event_handler(e, 4, "get_authmessage_length")

\* the Continue branch: lines 264-268
auth_continue(e) ==
    update_event_handler([e EXCEPT !.sasl.sasl_stage = "SaslServerStep"],
                         4, "get_authmessage_length")

auth_complete_noaccept(e, buf, p) ==
    LET ssf == sasl_check_ssf(e.sasl, p)
        e1 == [e EXCEPT !.sasl = ssf.sasl, !.checked_ssf = TRUE,
                        !.trace = IF e.sasl.want_ssf
                                  THEN Append(@, "sasl_getprop") ELSE @]
        authz == sasl_check_authz(e1.sasl, p)
        e2 == [e1 EXCEPT !.checked_authz = TRUE,
                         !.trace = Append(@, "sasl_getprop")]
    IN  IF ~ssf.ok
        THEN AuthFailed(write_msg(e1, auth_reject(buf)), ssf.msg)
        ELSE IF ~authz.ok
        THEN AuthFailed(write_msg(e2, auth_reject(buf)), authz.msg)
        ELSE update_event_handler(write_msg(e2, buf), 1, "handle_client_init")

auth_complete_no_return(e, buf, p) ==
    LET ssf == sasl_check_ssf(e.sasl, p)
        e1 == [e EXCEPT !.sasl = ssf.sasl, !.checked_ssf = TRUE,
                        !.trace = IF e.sasl.want_ssf
                                  THEN Append(@, "sasl_getprop") ELSE @]
        authz == sasl_check_authz(e1.sasl, p)
        e2 == [e1 EXCEPT !.checked_authz = TRUE,
                         !.trace = Append(@, "sasl_getprop")]
        e3 == [write_msg(e1, auth_reject(buf)) EXCEPT
                  !.checked_authz = TRUE,
                  !.trace = Append(@, "sasl_getprop")]
    IN  IF ~ssf.ok
        THEN IF ~authz.ok
             THEN AuthFailed(write_msg(e3, auth_reject(auth_reject(buf))),
                             authz.msg)
             ELSE AuthFailed(e3, ssf.msg)
        ELSE IF ~authz.ok
        THEN AuthFailed(write_msg(e2, auth_reject(buf)), authz.msg)
        ELSE update_event_handler(
                 write_msg(e2, BCat(buf, to_vec(to_be_bytes(0)))),
                 1, "handle_client_init")

auth_complete_reg_first(e, buf, p) ==
    LET ssf == sasl_check_ssf(e.sasl, p)
        e1 == [e EXCEPT !.sasl = ssf.sasl, !.checked_ssf = TRUE,
                        !.trace = IF e.sasl.want_ssf
                                  THEN Append(@, "sasl_getprop") ELSE @]
        authz == sasl_check_authz(e1.sasl, p)
        e2 == [e1 EXCEPT !.checked_authz = TRUE,
                         !.trace = Append(@, "sasl_getprop")]
    IN  IF ~ssf.ok
        THEN AuthFailed(write_msg(e1, auth_reject(buf)), ssf.msg)
        ELSE IF ~authz.ok
        THEN AuthFailed(write_msg(e2, auth_reject(buf)), authz.msg)
        ELSE write_msg(
                 update_event_handler(e2, 1, "handle_client_init"),
                 BCat(buf, to_vec(to_be_bytes(0))))

\* the Complete branch: lines 269-289
auth_complete(e, buf, p) ==
    LET ssf == sasl_check_ssf(e.sasl, p)
        e1 == [e EXCEPT !.sasl = ssf.sasl, !.checked_ssf = TRUE,
                        !.trace = IF e.sasl.want_ssf
                                  THEN Append(@, "sasl_getprop") ELSE @]
        authz == sasl_check_authz(e1.sasl, p)
        e2 == [e1 EXCEPT !.checked_authz = TRUE,
                         !.trace = Append(@, "sasl_getprop")]
    IN  IF ~ssf.ok
        THEN AuthFailed(write_msg(e1, auth_reject(buf)), ssf.msg)
        ELSE IF ~authz.ok
        THEN AuthFailed(write_msg(e2, auth_reject(buf)), authz.msg)
        ELSE update_event_handler(
                 write_msg(e2, BCat(buf, to_vec(to_be_bytes(0)))),
                 1, "handle_client_init")

\* client_sasl_auth with self.expect = exp, read_front(exp) = buf, the
\* provider returning err with (serverout, serverout_len) = so, and the
\* session's properties being p afterwards.
client_sasl_auth_effect(s, exp, buf, err, so, p) ==
    LET client_len == IF exp > 0 THEN exp - 1 ELSE 0
        client_data == IF exp > 0 THEN [buf EXCEPT ![exp] = 0] ELSE buf
        call == [ op |-> IF s.sasl_stage = "SaslServerStart"
                         THEN "sasl_server_start" ELSE "sasl_server_step",
                  mech |-> s.mech_name,
                  data |-> client_data,
                  len |-> client_len ]
        e0 == [Effect(s) EXCEPT !.call = << call >>, !.err = err,
                                !.outlen = so.len, !.serverout = so.data,
                                !.trace = << call.op >>]
    IN  IF err # SASL_OK /\ err # SASL_CONTINUE
        THEN AuthFailed(sasl_dispose(e0), "Auth failed!")
        ELSE IF serverout_too_long(so.len)
        THEN AuthFailed(sasl_dispose(e0), "SASL data too long")
        ELSE LET buf1 == challenge_reply(err, so)
                 e1 == [e0 EXCEPT !.reply = buf1]
             IN  IF err = SASL_CONTINUE
                 THEN auth_continue(e1)
                 ELSE auth_complete(e1, buf1, p)

\* ---------------------------------------------------- get_authmessage_length
authmessage_too_large_ge(len) == len >= SASL_DATA_MAX_LEN

authmessage_too_large(len) == len > SASL_DATA_MAX_LEN

get_authmessage_length_effect_retry(s, exp, buf, err, so, p) ==
    LET len == from_be_bytes(buf)
    IN  IF authmessage_too_large(len)
        THEN update_event_handler(Effect(s), 4, "get_authmessage_length")
        ELSE IF len = 0
        THEN client_sasl_auth_effect(s, exp, buf, err, so, p)
        ELSE update_event_handler(Effect(s), len, "client_sasl_auth")

get_authmessage_length_effect(s, exp, buf, err, so, p) ==
    LET len == from_be_bytes(buf)
    IN  IF authmessage_too_large(len)
        THEN AuthFailed(Effect(s), "SASL start len too large")
        ELSE IF len = 0
        THEN client_sasl_auth_effect(s, exp, buf, err, so, p)
        ELSE update_event_handler(Effect(s), len, "client_sasl_auth")

\* ------------------------------------------------------------ start_sasl_auth
\* The return codes of the provider calls of begin-negotiation, in call order.
InitSteps ==
    << "sasl_server_init", "sasl_server_new", "setprop_ssf_external",
       "setprop_sec_props", "sasl_listmech" >>

\* the steps that ran before the step failAt ("none": all of them)
ran(step, failAt) ==
    LET idx(x) == CHOOSE i \in 1..Len(InitSteps) : InitSteps[i] = x
    IN  failAt \in { "none", "mechlist_null" } \/ idx(step) <= idx(failAt)

start_sasl_auth_effect_nolen(s, failAt, mechlist) ==
    LET s1 == IF ran("sasl_server_new", failAt) /\ failAt # "sasl_server_new"
              THEN [s EXCEPT !.sasl_conn = "live"] ELSE s
        e == [Effect(s1) EXCEPT
                 !.trace = SelectSeq(InitSteps, LAMBDA x : ran(x, failAt))]
    IN  IF failAt \in { "sasl_server_init", "sasl_server_new",
                        "setprop_ssf_external", "setprop_sec_props" }
        THEN AuthFailed(e, "SASL_FAIL error code -1")
        ELSE IF failAt \in { "sasl_listmech", "mechlist_null" }
        THEN AuthFailed(e, "SASL_FAIL: no support sasl mechlist")
        ELSE LET s2 == [s1 EXCEPT !.mech_list = mechlist]
             IN  write_msg([e EXCEPT !.sasl = s2], to_vec(s2.mech_list))

\* sasl_server_init, set_ssf_for_sasl, send_mech_list, as start_sasl_auth
\* chains them; failAt names the first provider call that does not return
\* SASL_OK ("mechlist_null": sasl_listmech returns SASL_OK and a null list).
start_sasl_auth_effect(s, failAt, mechlist) ==
    LET s1 == IF ran("sasl_server_new", failAt) /\ failAt # "sasl_server_new"
              THEN [s EXCEPT !.sasl_conn = "live"] ELSE s
        e == [Effect(s1) EXCEPT
                 !.trace = SelectSeq(InitSteps, LAMBDA x : ran(x, failAt))]
    IN  IF failAt \in { "sasl_server_init", "sasl_server_new",
                        "setprop_ssf_external", "setprop_sec_props" }
        THEN AuthFailed(e, "SASL_FAIL error code -1")
        ELSE IF failAt \in { "sasl_listmech", "mechlist_null" }
        THEN AuthFailed(e, "SASL_FAIL: no support sasl mechlist")
        ELSE LET s2 == [s1 EXCEPT !.mech_list = mechlist]
                 buf == BCat(to_vec(to_be_bytes(Len(s2.mech_list))),
                             to_vec(s2.mech_list))
             IN  write_msg([e EXCEPT !.sasl = s2], buf)

\* ------------------------------------------------------------ the outer loop
\* The pair the caller of start_sasl_auth registers for the SASL subphase.
sasl_entry == [expect |-> 4, handler |-> "get_mechname_length"]

\* The loop invokes the registered handler h once `expect` bytes are there,
\* and no handler after one has returned an error.
Dispatch(h) == phase = "auth" /\ handler = h

\* The effect e of handler h, which read buf, on the session and the wire.
Record(h, hdr, buf, e) ==
    /\ last' = [ handler |-> h, result |-> e.result, hdr |-> hdr,
                 input |-> buf, written |-> e.written, regs |-> Len(e.reg),
                 call |-> e.call, err |-> e.err,
                 outlen |-> e.outlen, serverout |-> e.serverout,
                 reply |-> e.reply,
                 checked_ssf |-> e.checked_ssf,
                 checked_authz |-> e.checked_authz,
                 trace |-> e.trace ]
    /\ sasl' = e.sasl
    /\ wire' = wire \o e.written
    /\ disposed' = disposed + e.disposes
    /\ calls' = calls \o [i \in 1..Len(e.call) |-> e.call[i].op]
    /\ rounds' = IF e.call # << >> /\ e.err = SASL_CONTINUE
                 THEN rounds + 1 ELSE rounds
    /\ tick' = 1 - tick
    /\ UNCHANGED bootvars

\* The dispatch pair after an invocation that returned result and made the
\* registrations reg: the last registration replaces the pair; an error
\* ends the handshake.
Registered(result, reg) ==
    /\ IF reg # << >>
       THEN /\ expect' = reg[Len(reg)].expect
            /\ handler' = reg[Len(reg)].handler
       ELSE UNCHANGED << expect, handler >>
    /\ phase' = IF result # "Ok" THEN "failed"
                ELSE IF reg # << >>
                        /\ reg[Len(reg)].handler = "handle_client_init"
                THEN "accepted"
                ELSE "auth"

\* The state after handler h, which read buf, has had effect e.
Apply(h, hdr, buf, e) ==
    /\ Record(h, hdr, buf, e)
    /\ Registered(e.result, e.reg)

\* The outcomes of one provider exchange call: the return code err, the
\* challenge (none on an error), and what sasl_getprop yields afterwards
\* (settled when the exchange completes).
ReturnCodes ==
    { SASL_OK, SASL_FAIL } \cup (IF rounds < MaxRounds THEN { SASL_CONTINUE } ELSE { })

ServerOutsFor(err) ==
    IF err = SASL_FAIL THEN { so \in ServerOuts : so.len = 0 } ELSE ServerOuts

PropsFor(err) ==
    IF err = SASL_OK THEN [ssf : SsfProps, user : UserProps] ELSE { prov }

\* ------------------------------------------------------------------ actions
start_sasl_auth ==
    /\ phase = "new"
    /\ \E failAt \in { "none", "mechlist_null" } \cup
                     { InitSteps[i] : i \in 1..Len(InitSteps) },
          mechlist \in MechLists :
         LET e == start_sasl_auth_effect(sasl, failAt, mechlist)
         IN  /\ (failAt # "none" => mechlist = << >>)
             /\ Record("start_sasl_auth", -1, << >>, e)
             /\ Registered(e.result,
                           IF e.result = "Ok" THEN << sasl_entry >> ELSE << >>)
             /\ libInit' = libInit + 1
             /\ prov' = prov

get_mechname_length ==
    /\ Dispatch("get_mechname_length")
    /\ \E buf \in Headers :
         /\ Len(buf) = expect
         /\ Apply("get_mechname_length", from_be_bytes(buf), buf,
                  get_mechname_length_effect(sasl, buf))
    /\ UNCHANGED << libInit, prov >>

get_sasl_mechname ==
    /\ Dispatch("get_sasl_mechname")
    /\ \E buf \in MechNames :
         /\ Len(buf) = expect
         /\ Apply("get_sasl_mechname", -1, buf,
                  get_sasl_mechname_effect(sasl, buf))
    /\ UNCHANGED << libInit, prov >>

get_authmessage_length ==
    /\ Dispatch("get_authmessage_length")
    /\ \E buf \in Headers :
         /\ Len(buf) = expect
         /\ IF from_be_bytes(buf) = 0
            THEN \E err \in ReturnCodes :
                   \E so \in ServerOutsFor(err), p \in PropsFor(err) :
                     /\ Apply("get_authmessage_length", 0, buf,
                              get_authmessage_length_effect(
                                  sasl, expect, buf, err, so, p))
                     /\ prov' = p
            ELSE /\ Apply("get_authmessage_length", from_be_bytes(buf), buf,
                          get_authmessage_length_effect(
                              sasl, expect, buf, SASL_FAIL,
                              [len |-> 0, data |-> << >>], prov))
                 /\ prov' = prov
    /\ UNCHANGED libInit

client_sasl_auth ==
    /\ Dispatch("client_sasl_auth")
    /\ \E buf \in Payloads :
         /\ Len(buf) = expect
         /\ \E err \in ReturnCodes :
              \E so \in ServerOutsFor(err), p \in PropsFor(err) :
                /\ Apply("client_sasl_auth", -1, buf,
                         client_sasl_auth_effect(sasl, expect, buf, err, so, p))
                /\ prov' = p
    /\ UNCHANGED libInit

Next ==
    \/ start_sasl_auth
    \/ get_mechname_length
    \/ get_sasl_mechname
    \/ get_authmessage_length
    \/ client_sasl_auth

Spec == Init /\ [][Next]_vars

\* The client delivers the bytes the pending handler asked for.
Delivered ==
    \/ handler \in { "get_mechname_length", "get_authmessage_length" }
          /\ \E buf \in Headers : Len(buf) = expect
    \/ handler = "get_sasl_mechname"
          /\ \E buf \in MechNames : Len(buf) = expect
    \/ handler = "client_sasl_auth"
          /\ \E buf \in Payloads : Len(buf) = expect

\* An invocation is due: start_sasl_auth on a new connection, or the
\* pending handler once its bytes are there.
Pending == phase = "new" \/ (phase = "auth" /\ Delivered)

\* The caller or the loop makes the invocation that is due.
Invoke == Pending /\ tick' = 1 - tick

\* One connection whose outer loop invokes the pending handler whenever the
\* client has delivered the bytes it asked for.
LiveSpec == Init /\ [][Next]_vars /\ WF_tick(Invoke)

\* Bound on the number of connections the process serves.
MaxConns == 2

\* The server creates the next client with a fresh Sasl (same
\* configuration) once the previous handshake has ended; the provider
\* library stays initialized in the process.
new_client ==
    /\ phase \in { "accepted", "failed" }
    /\ libInit < MaxConns
    /\ phase' = "new"
    /\ expect' = 0
    /\ handler' = "none"
    /\ sasl' = Sasl_default(sasl.identity, sasl.want_ssf)
    /\ wire' = << >>
    /\ prov' = [ssf |-> [err |-> SASL_FAIL, val |-> 0],
                user |-> [err |-> SASL_FAIL, null |-> TRUE, name |-> ""]]
    /\ calls' = << >>
    /\ disposed' = 0
    /\ rounds' = 0
    /\ last' = NoLast
    /\ UNCHANGED << libInit, tick, bootvars >>

NextConns ==
    \/ Next
    \/ new_client

\* Successive connections served by one process.
SpecConns == Init /\ [][NextConns]_vars

\* ------------------------------------------------------------ E820 table
add_e820_entry_noinc(b, addr, size, type_) ==
    [ calls |-> b.calls + 1,
      params |-> [b.params EXCEPT
          !.e820_table[b.params.e820_entries] =
              E820Entry_new(addr, size, type_)] ]

\* BootParams::add_e820_entry, on the pair of the BootParams and the number
\* of calls made
add_e820_entry(b, addr, size, type_) ==
    [ calls |-> b.calls + 1,
      params |-> [b.params EXCEPT
          !.e820_table[b.params.e820_entries] =
              E820Entry_new(addr, size, type_),
          !.e820_entries = @ + 1] ]

\* BootParams::setup_e820_entries
setup_e820_entries_effect(b, gap_range, mem_end) ==
    LET b1 == add_e820_entry(b, REAL_MODE_IVT_BEGIN,
                             EBDA_START - REAL_MODE_IVT_BEGIN, E820_RAM)
        b2 == add_e820_entry(b1, EBDA_START, VGA_RAM_BEGIN - EBDA_START,
                             E820_RESERVED)
        b3 == add_e820_entry(b2, MB_BIOS_BEGIN, 0, E820_RESERVED)
        high_memory_start == VMLINUX_RAM_START
        layout_32bit_gap_end == gap_range[1] + gap_range[2]
    IN  IF mem_end < layout_32bit_gap_end
        THEN add_e820_entry(b3, high_memory_start,
                            mem_end - high_memory_start, E820_RAM)
        ELSE add_e820_entry(
                 add_e820_entry(b3, high_memory_start,
                                gap_range[1] - high_memory_start, E820_RAM),
                 layout_32bit_gap_end, mem_end - layout_32bit_gap_end,
                 E820_RAM)

\* A new BootParams, and the layout and memory it is set up for.
BootInit ==
    /\ boot_params = BootParams_new
    /\ \E g \in GapRanges : config = [gap_range |-> g]
    /\ sys_mem \in MemEnds
    /\ add_calls = 0
    /\ phase = "new"
    /\ expect = 0
    /\ handler = "none"
    /\ sasl = Sasl_default("", FALSE)
    /\ wire = << >>
    /\ prov = [ssf |-> [err |-> SASL_FAIL, val |-> 0],
               user |-> [err |-> SASL_FAIL, null |-> TRUE, name |-> ""]]
    /\ calls = << >>
    /\ disposed = 0
    /\ libInit = 0
    /\ rounds = 0
    /\ last = NoLast
    /\ tick = 0

\* boot_params.setup_e820_entries(&config, &sys_mem), on the new BootParams
setup_e820_entries ==
    /\ boot_params.e820_entries = 0 /\ add_calls = 0
    /\ LET b == setup_e820_entries_effect(
                    [calls |-> add_calls, params |-> boot_params],
                    config.gap_range, sys_mem)
       IN  /\ boot_params' = b.params
           /\ add_calls' = b.calls
    /\ UNCHANGED << config, sys_mem, phase, expect, handler, sasl, wire,
                    prov, calls, disposed, libInit, rounds, last, tick >>

BootNext == setup_e820_entries

\* The E820 table set up once for a layout and a memory size.
BootSpec == BootInit /\ [][BootNext]_vars

TypeOK ==
    /\ phase \in { "new", "auth", "accepted", "failed" }
    /\ expect \in Nat
    /\ sasl.sasl_conn \in { "null", "live" }
    /\ sasl.sasl_stage \in { "SaslServerStart", "SaslServerStep" }
    /\ rounds \in 0..MaxRounds
    /\ tick \in { 0, 1 }

\* ------------------------------------------------------------------- claims
\* The last invocation made a provider exchange call.
Exchanged == last.call # << >>

\* The last invocation reached finalize: the provider reported Complete and
\* the challenge was not oversized.
Finalized ==
    Exchanged /\ last.err = SASL_OK /\ last.outlen <= 1048576

\* The strength check as the claim states it.
StrengthOk ==
    ~sasl.want_ssf \/ (prov.ssf.err = SASL_OK /\ prov.ssf.val >= 56)

\* The identity check as the claim states it.
IdentityOk ==
    prov.user.err = SASL_OK /\ ~prov.user.null
        /\ prov.user.name = sasl.identity

\* The last invocation wrote one buffer, ending in the accept value, and
\* registered the post-authentication handler.
Admitted ==
    /\ last.result = "Ok"
    /\ phase = "accepted"
    /\ expect = 1 /\ handler = "handle_client_init"
    /\ Len(last.written) = 1
    /\ LET b == last.written[1]
       IN  BLen(b) >= 4 /\ BSub(b, BLen(b) - 3, BLen(b)) = << 0, 0, 0, 0 >>

\* C1: when the provider reports Complete, the client is admitted iff the
\* strength check passes (skipped when want_ssf is false, else SSF >= 56)
\* and the reported principal is present and equal to the identity; no
\* client is admitted in any other way.
C1_AdmitIff ==
    /\ Finalized => (Admitted <=> (StrengthOk /\ IdentityOk))
    /\ (phase = "accepted" \/ handler = "handle_client_init")
          => (Finalized /\ Admitted)

C1_Witness ==
    Finalized /\ Admitted /\ sasl.want_ssf /\ prov.ssf.val = 56

\* The buffer b ends, after its first k bytes, in a reject frame: value 1,
\* the length of the text, the non-empty fixed text.
RejectFrameAt(b, k) ==
    /\ BLen(b) > k + 8
    /\ BSub(b, k + 1, k + 4) = << 0, 0, 0, 1 >>
    /\ from_be_bytes(BSub(b, k + 5, k + 8)) = BLen(b) - (k + 8)
    /\ BSub(b, k + 9, BLen(b)) = reason
    /\ Len(reason) = 21

\* C2: whenever finalize fails (strength or authorization check), a reject
\* frame has been written to the client when the error is returned.
C2_RejectFrameWritten ==
    (Finalized /\ last.result # "Ok") =>
        /\ Len(last.written) = 1
        /\ wire # << >> /\ wire[Len(wire)] = last.written[1]
        /\ RejectFrameAt(last.written[1], BLen(last.reply))

C2_Witness ==
    Finalized /\ last.result # "Ok" /\ last.checked_authz /\ last.outlen = 2

\* The provider session was created: it is live, or it has been disposed.
SessionCreated == sasl.sasl_conn = "live" \/ disposed > 0

\* C3: on every terminal path of a handshake whose provider session was
\* created, the session has been disposed exactly once.
C3_DisposedExactlyOnce ==
    (phase \in { "accepted", "failed" } /\ SessionCreated) => disposed = 1

\* C4: when the provider returns Continue and the handler returns Ok, the
\* stage is ExchangeStep, the challenge reply has been sent, and a 4-byte
\* read by get_authmessage_length is registered.
C4_ContinueReplySent ==
    (Exchanged /\ last.err = SASL_CONTINUE /\ last.result = "Ok") =>
        /\ sasl.sasl_stage = "SaslServerStep"
        /\ Len(last.written) = 1 /\ last.written[1] = last.reply
        /\ expect = 4 /\ handler = "get_authmessage_length"

\* C5: when get_authmessage_length reads a zero length, the exchange runs
\* in the same invocation and the payload handed to the provider is empty.
C5_ZeroLengthEmptyPayload ==
    (last.handler = "get_authmessage_length"
        /\ from_be_bytes(last.input) = 0) =>
        /\ Exchanged
        /\ last.call[1].len = 0

\* C6: get_mechname_length succeeds iff 1 <= L <= 100; on success it
\* registers a read of L bytes by get_sasl_mechname, else it fails.
C6_MechnameLength ==
    last.handler = "get_mechname_length" =>
        LET L == from_be_bytes(last.input)
        IN  /\ last.result = "Ok" <=> (1 <= L /\ L <= 100)
            /\ last.result = "Ok" =>
                  (expect = L /\ handler = "get_sasl_mechname"
                      /\ last.regs = 1 /\ phase = "auth")
            /\ last.result # "Ok" => (phase = "failed" /\ last.regs = 0)

C6_Witness ==
    /\ last.handler = "get_mechname_length"
    /\ from_be_bytes(last.input) = 100
    /\ last.result = "Ok" /\ expect = 100

\* C7: get_authmessage_length rejects the length iff L > 1,048,576; for an
\* accepted L > 0 it registers a read of L bytes by client_sasl_auth.
C7_AuthmessageLength ==
    last.handler = "get_authmessage_length" =>
        LET L == from_be_bytes(last.input)
        IN  /\ last.result = "SASL start len too large" <=> L > 1048576
            /\ L > 1048576 => (phase = "failed" /\ last.regs = 0)
            /\ (0 < L /\ L <= 1048576) =>
                  (last.result = "Ok" /\ expect = L /\ last.regs = 1
                      /\ handler = "client_sasl_auth" /\ ~Exchanged)

C7_Witness ==
    /\ last.handler = "get_authmessage_length"
    /\ from_be_bytes(last.input) = 1048576
    /\ last.result = "Ok" /\ expect = 1048576

\* C8: when the exchange call succeeds with a challenge longer than
\* 1,048,576 bytes, the session is disposed and the handler fails with
\* nothing written and nothing registered; 1,048,576 bytes is accepted.
C8_OversizedChallenge ==
    (Exchanged /\ last.err \in { SASL_OK, SASL_CONTINUE }) =>
        IF last.outlen > 1048576
        THEN /\ last.result = "SASL data too long"
             /\ phase = "failed"
             /\ last.written = << >> /\ last.regs = 0
             /\ sasl.sasl_conn = "null" /\ disposed = 1
        ELSE /\ last.result # "SASL data too long"
             /\ last.reply # << >>
             /\ (last.err = SASL_CONTINUE => last.result = "Ok")

C8_Witness ==
    Exchanged /\ last.err = SASL_OK /\ last.outlen = 1048577
        /\ last.result = "SASL data too long"

\* name is one whole element of the comma-separated list.
IsElement(name, list) ==
    /\ \A i \in 1..Len(name) : name[i] # 44
    /\ \E i \in 1..(Len(list) + 1) :
         /\ i = 1 \/ list[i - 1] = 44
         /\ i + Len(name) - 1 <= Len(list)
         /\ SubSeq(list, i, i + Len(name) - 1) = name
         /\ i + Len(name) = Len(list) + 1 \/ list[i + Len(name)] = 44

\* C9: get_sasl_mechname succeeds iff the offered name equals one element
\* of the advertised list; on success the name is stored and a 4-byte read
\* by get_authmessage_length is registered.
C9_MechnameExactMatch ==
    last.handler = "get_sasl_mechname" =>
        /\ last.result = "Ok" <=> IsElement(last.input, sasl.mech_list)
        /\ last.result = "Ok" =>
              (sasl.mech_name = last.input /\ expect = 4
                  /\ handler = "get_authmessage_length" /\ last.regs = 1)
        /\ last.result # "Ok" => (sasl.mech_name = << >> /\ phase = "failed")

C9_Witness ==
    /\ last.handler = "get_sasl_mechname"
    /\ last.result = "Ok"
    /\ last.input = ANONYMOUS
    /\ sasl.mech_name = ANONYMOUS

\* In the log of exchange calls, sasl_server_start occurs only first.
StartOnlyFirst ==
    \A i \in 1..Len(calls) : calls[i] = "sasl_server_start" <=> i = 1

\* C10: in one handshake sasl_server_start is called at most once, every
\* later exchange call is sasl_server_step, and the stage never goes back
\* from SaslServerStep to SaslServerStart.
C10_StartAtMostOnce ==
    /\ [] StartOnlyFirst
    /\ [][sasl.sasl_stage = "SaslServerStep"
            => sasl'.sasl_stage = "SaslServerStep"]_vars

C10_Witness ==
    /\ Len(calls) = 3
    /\ calls[3] = "sasl_server_step"
    /\ sasl.sasl_stage = "SaslServerStep"

\* Every exchange call made so far, the first one included, returned
\* Continue or Complete.
FirstCallReturned ==
    /\ calls # << >>
    /\ ~(Len(calls) = 1 /\ Exchanged /\ last.err = SASL_FAIL)

\* C11 (as stated): the stage starts at SaslServerStart and is
\* SaslServerStep in every state after the first exchange call has
\* returned Continue or Complete.
C11_StepAfterFirstCall ==
    /\ calls = << >> => sasl.sasl_stage = "SaslServerStart"
    /\ FirstCallReturned => sasl.sasl_stage = "SaslServerStep"

\* Some invocation in which the provider returned Continue has returned Ok.
ContinueAccepted ==
    \/ Len(calls) >= 2
    \/ /\ Len(calls) = 1
       /\ ~Exchanged \/ (last.err = SASL_CONTINUE /\ last.result = "Ok")

\* C11 (amended): the stage starts at SaslServerStart, is SaslServerStep
\* exactly in the states after an invocation in which the provider returned
\* Continue has returned Ok, and then stays SaslServerStep; a first call
\* that returns Complete leaves it at SaslServerStart.
C11_StepAfterContinue ==
    /\ [] (calls = << >> => sasl.sasl_stage = "SaslServerStart")
    /\ [] (sasl.sasl_stage = "SaslServerStep" <=> ContinueAccepted)
    /\ [] ((Exchanged /\ last.err = SASL_CONTINUE /\ last.result = "Ok")
              => sasl.sasl_stage = "SaslServerStep")
    /\ [][sasl.sasl_stage = "SaslServerStep"
            => sasl'.sasl_stage = "SaslServerStep"]_vars

C11_Witness ==
    /\ Len(calls) = 2 /\ rounds = 2
    /\ Exchanged /\ last.err = SASL_CONTINUE
    /\ sasl.sasl_stage = "SaslServerStep"

\* The challenge reply the wire format prescribes for a challenge of K
\* bytes c and a continuation flag.
WireReply(K, c, flag) ==
    IF K > 0
    THEN BCat(BCat(to_vec(to_be_bytes(K + 1)), c), Run(flag, 1))
    ELSE BCat(to_vec(to_be_bytes(0)), Run(flag, 1))

\* C12: the reply built by client_sasl_auth is the length K+1 and the K
\* challenge bytes (or a zero length and no bytes when K = 0), then one
\* continuation byte, 0 for Continue and 1 for Complete; decoding it gives
\* back the length field K+1 and the flag.
C12_ReplyEncoding ==
    (Exchanged /\ last.err \in { SASL_OK, SASL_CONTINUE }
        /\ last.outlen <= 1048576) =>
        LET K == last.outlen
            flag == IF last.err = SASL_OK THEN 1 ELSE 0
            b == last.reply
        IN  /\ BLen(last.serverout) = K
            /\ b = WireReply(K, last.serverout, flag)
            /\ BLen(b) = (IF K > 0 THEN 4 + K + 1 ELSE 5)
            /\ from_be_bytes(BSub(b, 1, 4)) = (IF K > 0 THEN K + 1 ELSE 0)
            /\ BAt(b, BLen(b)) = flag

\* The last invocation wrote one buffer: its challenge reply followed by
\* the accept value 00 00 00 00.
AcceptWritten ==
    /\ last.handler \in { "get_authmessage_length", "client_sasl_auth" }
    /\ Len(last.written) = 1
    /\ wire # << >> /\ wire[Len(wire)] = last.written[1]
    /\ LET b == last.written[1]
           k == BLen(last.reply)
       IN  /\ BLen(b) = k + 4
           /\ BSub(b, k + 1, k + 4) = << 0, 0, 0, 0 >>
           /\ k >= 5 /\ b = BCat(last.reply, Run(0, 4))

\* C13: when the provider reports Complete and both checks pass, the accept
\* value is appended to the challenge reply, the buffer is written and the
\* dispatch pair becomes (1, handle_client_init); no accept value is
\* written by an invocation in which the provider did not report Complete.
C13_AcceptAfterComplete ==
    /\ (Finalized /\ StrengthOk /\ IdentityOk) =>
          (AcceptWritten /\ last.result = "Ok"
              /\ expect = 1 /\ handler = "handle_client_init")
    /\ AcceptWritten => (Finalized /\ StrengthOk /\ IdentityOk)

C13_Witness ==
    Finalized /\ AcceptWritten /\ last.outlen = 2 /\ expect = 1
        /\ handler = "handle_client_init"

C15_NoPartialSession ==
    (last.handler = "start_sasl_auth" /\ phase = "failed") =>
        /\ last.result # "Ok"
        /\ wire = << >>
        /\ sasl.sasl_conn # "live"

\* C16: when the provider exchange call returns neither Continue nor
\* Complete, the session is disposed, the handler fails, nothing is written
\* and no read is registered.
C16_ExchangeError ==
    (Exchanged /\ last.err # SASL_OK /\ last.err # SASL_CONTINUE) =>
        /\ last.result = "Auth failed!"
        /\ phase = "failed"
        /\ sasl.sasl_conn = "null" /\ disposed = 1
        /\ last.written = << >>
        /\ last.regs = 0

C16_Witness ==
    /\ Exchanged /\ last.err = SASL_FAIL
    /\ last.call[1].op = "sasl_server_step"
    /\ last.result = "Auth failed!" /\ disposed = 1

\* The strength check was evaluated by the last invocation and passed.
StrengthCheckPassed ==
    /\ last.checked_ssf /\ sasl.want_ssf
    /\ prov.ssf.err = SASL_OK /\ prov.ssf.val >= 56

\* C17: when the strength check is evaluated and passes, run_ssf equals
\* the strength factor the provider reported, hence is at least 56.
C17_RunSsfIsStrength ==
    StrengthCheckPassed =>
        (sasl.run_ssf = prov.ssf.val /\ sasl.run_ssf >= 56)

\* C18 (as stated): run_ssf is 0 in every state of a handshake in which
\* finalize has not succeeded.
C18_ZeroUntilFinalize ==
    phase # "accepted" => sasl.run_ssf = 0

\* C18 (amended): run_ssf is 0 in every state in which the strength check
\* has not been evaluated and passed, and nonzero once it has, also when
\* the authorization check then rejects the client.
C18_ZeroUntilStrengthCheck ==
    sasl.run_ssf # 0 <=> StrengthCheckPassed

C18_Witness ==
    /\ StrengthCheckPassed /\ last.checked_authz
    /\ phase = "failed" /\ sasl.run_ssf # 0

\* C19: however many connections run start_sasl_auth in the process, the
\* provider library is initialized at most once.
C19_LibInitAtMostOnce == libInit <= 1

\* C20: whenever a handler returns an error it has registered no read, the
\* dispatch pair is the one pending before the invocation, and no handler
\* runs afterwards.
C20_ErrorsTerminal ==
    /\ [][(last'.result # "Ok") =>
            /\ last'.regs = 0
            /\ expect' = expect /\ handler' = handler
            /\ phase' = "failed"]_vars
    /\ [][phase # "failed"]_vars

C20_Witness ==
    /\ last.handler = "get_sasl_mechname"
    /\ last.result = "Unsupported mechanism"
    /\ last.input = EXTERNAL
    /\ phase = "failed" /\ expect = 8 /\ handler = "get_sasl_mechname"

\* The handlers of the SASL subphase.
SaslHandlers ==
    { "get_mechname_length", "get_sasl_mechname", "get_authmessage_length",
      "client_sasl_auth" }

\* C21: the selected mechanism is empty or an element of the advertised
\* list; once set it is never changed; it is non-empty whenever the pending
\* handler is get_authmessage_length or client_sasl_auth, so every
\* sasl_server_start call passes a mechanism of the advertised list.
C21_MechFromList ==
    /\ [] (sasl.mech_name = << >>
              \/ IsElement(sasl.mech_name, sasl.mech_list))
    /\ [] (handler \in { "get_authmessage_length", "client_sasl_auth" }
              => sasl.mech_name # << >>)
    /\ [] ((Exchanged /\ last.call[1].op = "sasl_server_start") =>
              /\ last.call[1].mech # << >>
              /\ last.call[1].mech = sasl.mech_name
              /\ IsElement(last.call[1].mech, sasl.mech_list))
    /\ [][sasl.mech_name # << >> => sasl'.mech_name = sasl.mech_name]_vars

C21_Witness ==
    /\ Exchanged /\ last.call[1].op = "sasl_server_start"
    /\ last.call[1].mech = ANONYMOUS
    /\ sasl.mech_list = PLAIN \o Comma \o ANONYMOUS

\* The positions of operation op in the last invocation's trace.
TracePositions(op) == { i \in 1..Len(last.trace) : last.trace[i] = op }

\* C22: there is one pending (expect, handler) pair, with a positive count
\* while the handshake runs; a handler is invoked with the expected number
\* of bytes buffered; a successful invocation replaces the pair at most
\* once, as its last effect.
C22_SinglePendingPair ==
    /\ [] (phase = "auth" => (expect >= 1 /\ handler \in SaslHandlers))
    /\ [] (last.handler \in SaslHandlers =>
              /\ last.regs <= 1
              /\ Cardinality(TracePositions("update_event_handler"))
                    = last.regs
              /\ TracePositions("update_event_handler")
                    \subseteq { Len(last.trace) })
    /\ [][last'.handler \in SaslHandlers =>
            (last'.handler = handler /\ Len(last'.input) = expect)]_vars

C22_Witness ==
    /\ last.handler = "get_authmessage_length" /\ Finalized
    /\ last.result = "Ok" /\ last.regs = 1
    /\ Len(last.trace) = 4
    /\ last.trace[3] = "write_msg"
    /\ last.trace[4] = "update_event_handler"

\* C23: once the session has been disposed, no provider operation is
\* invoked on it again: the dispose is the last operation of its
\* invocation, it happens once, and no handler runs afterwards.
C23_NoUseAfterDispose ==
    /\ [] (disposed > 0 =>
              /\ disposed = 1
              /\ sasl.sasl_conn = "null"
              /\ TracePositions("sasl_dispose") = { Len(last.trace) }
              /\ phase = "failed")
    /\ [][disposed = 0]_vars

C23_Witness ==
    /\ disposed = 1 /\ Len(calls) = 2
    /\ last.trace = << "sasl_server_step", "sasl_dispose" >>

\* The first buffer written is the mechanism-list message for the list
\* the session holds.
MechListOnWire ==
    /\ wire # << >>
    /\ LET n == Len(sasl.mech_list)
       IN  /\ BLen(wire[1]) = 4 + n
           /\ BSub(wire[1], 5, 4 + n) = sasl.mech_list

\* C24: the advertised list is written only by start_sasl_auth, once; the
\* four handlers leave it unchanged, so the list get_sasl_mechname tests
\* against is the list that was sent.
C24_MechListImmutable ==
    /\ [][last'.handler # "start_sasl_auth"
            => sasl'.mech_list = sasl.mech_list]_vars
    /\ [][last'.handler = "start_sasl_auth"
            => (phase = "new" /\ sasl.mech_list = << >>)]_vars
    /\ [][phase' # "new"]_vars
    /\ [] (last.handler \in SaslHandlers => MechListOnWire)

C24_Witness ==
    /\ last.handler = "get_sasl_mechname" /\ last.result = "Ok"
    /\ sasl.mech_list = PLAIN \o Comma \o ANONYMOUS
    /\ MechListOnWire

\* The length of the payload the client sent for the last exchange: the
\* bytes client_sasl_auth read as a handler, none on the zero-length path.
PayloadLen ==
    IF last.handler = "client_sasl_auth" THEN Len(last.input) ELSE 0

\* C26: for a payload of N > 0 bytes the provider is passed the length N-1,
\* the first N-1 bytes unchanged and the last byte zeroed; for an empty
\* payload it is passed the length 0; for sasl_server_start and
\* sasl_server_step alike.
C26_PayloadTerminator ==
    Exchanged =>
        LET c == last.call[1]
            N == PayloadLen
        IN  IF N > 0
            THEN /\ c.len = N - 1
                 /\ Len(c.data) = N
                 /\ \A i \in 1..(N - 1) : c.data[i] = last.input[i]
                 /\ c.data[N] = 0
            ELSE c.len = 0

\* The moves of the pending handler.
HandlerEdges ==
    { << "none", "get_mechname_length" >>,
      << "get_mechname_length", "get_sasl_mechname" >>,
      << "get_sasl_mechname", "get_authmessage_length" >>,
      << "get_authmessage_length", "client_sasl_auth" >>,
      << "client_sasl_auth", "get_authmessage_length" >>,
      << "client_sasl_auth", "handle_client_init" >>,
      << "get_authmessage_length", "get_authmessage_length" >>,
      << "get_authmessage_length", "handle_client_init" >> }

\* C27: the pending handler moves only along get_mechname_length ->
\* get_sasl_mechname -> get_authmessage_length -> client_sasl_auth ->
\* (get_authmessage_length | handle_client_init), and from
\* get_authmessage_length to itself or to handle_client_init on a zero
\* length only; so handle_client_init is pending only after a mechanism
\* was selected and an exchange call returned Complete.
C27_HandlerEdges ==
    /\ [][(handler' = handler /\ last'.regs = 0)
            \/ << handler, handler' >> \in HandlerEdges]_vars
    /\ [][(handler = "get_authmessage_length" /\ last'.regs > 0
              /\ handler' # "client_sasl_auth") => last'.hdr = 0]_vars
    /\ [] (handler = "handle_client_init" =>
              /\ sasl.mech_name # << >>
              /\ Exchanged /\ last.err = SASL_OK)

C27_Witness ==
    /\ handler = "handle_client_init"
    /\ last.handler = "get_authmessage_length"
    /\ Len(calls) = 2 /\ rounds = 1
    /\ sasl.mech_name = PLAIN

\* The last invocation wrote one buffer: its challenge reply followed by a
\* reject frame.
RejectWritten ==
    /\ Len(last.written) = 1
    /\ RejectFrameAt(last.written[1], BLen(last.reply))

\* C28: at most one final-result frame is written per handshake: an
\* invocation that reaches finalize writes one buffer, holding either the
\* accept or one reject frame, and ends the handshake; when both checks
\* would fail, the strength check alone is evaluated and one reject frame
\* is written.
C28_OneFinalFrame ==
    /\ [] (Finalized =>
              /\ Cardinality(TracePositions("write_msg")) = 1
              /\ Len(last.written) = 1
              /\ AcceptWritten <=> ~RejectWritten
              /\ BLen(last.written[1]) \in
                    { BLen(last.reply) + 4, BLen(last.reply) + 29 })
    /\ [] (~Finalized => (~AcceptWritten /\ ~RejectWritten))
    /\ [] ((Finalized /\ ~StrengthOk /\ ~IdentityOk) =>
              /\ RejectWritten
              /\ last.checked_ssf /\ ~last.checked_authz
              /\ last.result \in { "sasl_getprop: internal error",
                                   "SASL SSF too weak" })
    /\ [][~Finalized]_vars

C28_Witness ==
    /\ Finalized /\ ~StrengthOk /\ ~IdentityOk
    /\ RejectWritten /\ prov.ssf.val = 55 /\ prov.user.name = "Admin"

\* The handshake has ended: the post-authentication handler is registered,
\* or a handler has returned an error.
Terminal == phase \in { "accepted", "failed" }

\* C29: when the requested bytes keep being delivered and the provider
\* returns Continue finitely often, the handshake reaches a terminal
\* outcome (accept written and handle_client_init registered, or an
\* error); after each Continue it is back in the get_authmessage_length /
\* client_sasl_auth loop, whatever the number of rounds so far.
C29_EventuallyTerminal ==
    /\ <> (Terminal \/ (phase = "auth" /\ ~Delivered))
    /\ [] (phase = "accepted" =>
              (AcceptWritten /\ handler = "handle_client_init"))
    /\ [] (phase = "failed" => last.result # "Ok")
    /\ [] ((Exchanged /\ last.err = SASL_CONTINUE /\ last.result = "Ok") =>
              (phase = "auth" /\ handler = "get_authmessage_length"
                  /\ expect = 4))
    /\ [] ((rounds > 0 /\ phase = "auth") =>
              handler \in { "get_authmessage_length", "client_sasl_auth" })

C29_Witness ==
    /\ phase = "accepted" /\ rounds = MaxRounds
    /\ Len(calls) = MaxRounds + 1
    /\ AcceptWritten /\ handler = "handle_client_init"

\* C25: setup_e820_entries on an empty table makes 4 entries when the
\* memory end is below the end of the 32-bit gap and 5 otherwise: (0,
\* EBDA_START, RAM), (EBDA_START, VGA_RAM_BEGIN - EBDA_START, reserved),
\* (MB_BIOS_BEGIN, 0, reserved), then RAM from 0x0010_0000 to the memory
\* end, or to the gap start followed by RAM from the gap end to the memory
\* end; e820_entries is the number of add_e820_entry calls.
C25_E820Entries ==
    add_calls > 0 =>
        LET t == boot_params.e820_table
            gap_start == config.gap_range[1]
            gap_end == config.gap_range[1] + config.gap_range[2]
            n == IF sys_mem < gap_end THEN 4 ELSE 5
        IN  /\ boot_params.e820_entries = n
            /\ add_calls = n
            /\ t[0] = [addr |-> 0, size |-> 654336 \div Granule, type_ |-> 1]
            /\ t[1] = [addr |-> 654336 \div Granule,
                       size |-> 1024 \div Granule, type_ |-> 2]
            /\ t[2] = [addr |-> 983040 \div Granule, size |-> 0, type_ |-> 2]
            /\ t[3].addr = 1048576 \div Granule /\ t[3].type_ = 1
            /\ IF n = 4
               THEN t[3].addr + t[3].size = sys_mem
               ELSE /\ t[3].addr + t[3].size = gap_start
                    /\ t[4].addr = gap_end /\ t[4].type_ = 1
                    /\ t[4].addr + t[4].size = sys_mem
            /\ \A i \in n..(E820_TABLE_LEN - 1) :
                  t[i] = [addr |-> 0, size |-> 0, type_ |-> 0]

C25_Witness ==
    /\ add_calls = 5 /\ boot_params.e820_entries = 5
    /\ config.gap_range = << 3 * 1048576, 1048576 >>
    /\ sys_mem = 8 * 1048576
    /\ boot_params.e820_table[4] =
          [addr |-> 4 * 1048576, size |-> 4 * 1048576, type_ |-> 1]

====
